---- MODULE Spec2Model ----
(***************************************************************************)
(* Trade and order alerts of handlers/bots/trade_alerts.py: per chat and   *)
(* per kind (trades, orders) a state dict, a repeating job, and a poll     *)
(* callback that fetches, classifies, notifies and advances the state.     *)
(***************************************************************************)
EXTENDS Integers, Sequences, FiniteSets, TLC

\* ------------------------------------------------------------------ bounds
\* Longest batch a trade fetch returns in the model.
MaxTrades == 2
\* Largest trade timestamp (seconds) in the model.
MaxTs == 2
\* Longest batch an order fetch returns in the model.
MaxOrders == 2
\* Largest order creation timestamp (seconds) in the model.
MaxOrderTs == 1
\* Most poll callbacks of one chat and kind that are suspended at one time.
MaxInFlight == 2
\* Cursor timestamps of the start_time computation are counted in ticks:
\* TicksPerMs ticks make a millisecond, and a cursor lies within
\* MaxCursorTicks ticks of the epoch, before or after it.
TicksPerMs == 2
MaxCursorTicks == 4000

\* int(float(start_time) * 1000) - 1000: the margin, in milliseconds, that the
\* poll subtracts.
MarginMs == 1000

\* ------------------------------------------------------------ value domains
\* Python's None, and a present optional value.
None == << >>
Some(v) == <<v>>

\* Chats known to the bot; PollChat is the one the poll specifications drive.
Chats == {"chat1", "chat2"}
PollChat == "chat1"

\* The strings of the model, in Python's str order.
StrOrder == <<"", "a", "acc:conn:o1", "acc:conn:pair:buy:1", "b",
              "binance", "kucoin">>
StrRank == [s \in {StrOrder[i] : i \in 1..Len(StrOrder)} |->
               CHOOSE i \in 1..Len(StrOrder) : StrOrder[i] = s]
StrLess(s, t) == StrRank[s] < StrRank[t]

\* ------------------------------------------------------------------ filters
FilterKeys == <<"account_names", "connector_names", "trading_pairs">>
FilterKeySet == {FilterKeys[i] : i \in 1..Len(FilterKeys)}

\* sorted(values): ascending list of a set of strings.
RECURSIVE sorted(_)
sorted(S) ==
    IF S = {} THEN << >>
    ELSE LET m == CHOOSE x \in S : \A y \in S : y = x \/ StrLess(x, y)
         IN <<m>> \o sorted(S \ {m})

Range(seq) == {seq[i] : i \in 1..Len(seq)}

\* dict.get(key, []) on a filter dict, which is a function on some filter keys.
FilterGet(f, key) == IF key \in DOMAIN f THEN f[key] ELSE << >>

\* A dict with no keys.
EmptyDict == [k \in {} |-> << >>]

\* Without `if merged_values:` a key whose union is empty is kept.
_merge_filters_keep_empty(existing, new) ==
    LET e == IF existing = None THEN EmptyDict ELSE existing
        n == IF new = None THEN EmptyDict ELSE new
        merged_values(key) == Range(FilterGet(e, key)) \cup Range(FilterGet(n, key))
    IN [key \in DOMAIN e \cup DOMAIN n |-> sorted(merged_values(key))]

\* existing.update(new): an entry of new replaces the entry of existing.
_merge_filters_update(existing, new) ==
    LET e == IF existing = None THEN EmptyDict ELSE existing
        n == IF new = None THEN EmptyDict ELSE new
        value(key) == IF key \in DOMAIN n THEN Range(n[key]) ELSE Range(FilterGet(e, key))
        keys == {key \in FilterKeySet : value(key) # {}}
    IN [key \in keys |-> sorted(value(key))]

_merge_filters(existing, new) ==
    LET e == IF existing = None THEN EmptyDict ELSE existing
        n == IF new = None THEN EmptyDict ELSE new
        merged_values(key) == Range(FilterGet(e, key)) \cup Range(FilterGet(n, key))
        keys == {key \in FilterKeySet : merged_values(key) # {}}
    IN [key \in keys |-> sorted(merged_values(key))]

\* Filters a caller passes to start in the model: none, or one connector.
StartFilters ==
    {None, [k \in {"connector_names"} |-> <<"binance">>],
           [k \in {"connector_names"} |-> <<"kucoin">>]}

\* ------------------------------------------------------------------- trades
TradeIds == {"a", "b"}

\* A fetched trade record, reduced to what the poll reads: its timestamp
\* field and its trade_id.  ts_kind says what the timestamp field holds:
\*   "ok"          a value that parses to `timestamp` seconds
\*   "unparsable"  None, NaN or a string fromisoformat rejects
\*   "range"       a number or date outside the platform's range, for which
\*                 fromtimestamp()/timestamp() raise OverflowError/OSError
TradeRecords ==
    [ts_kind : {"ok"}, timestamp : 1..MaxTs, trade_id : TradeIds]
    \cup [ts_kind : {"unparsable", "range"}, timestamp : {0}, trade_id : {"a"}]

\* The lists of at most n elements of S.
SeqsUpTo(S, n) == UNION {[1..k -> S] : k \in 0..n}

TradeBatches == SeqsUpTo(TradeRecords, MaxTrades)

\* What client.trading.get_trades gives: an exception, or a result with data.
FetchFailed == [ok |-> FALSE, data |-> << >>]
FetchOk(batch) == [ok |-> TRUE, data |-> batch]

\* _parse_trade_timestamp followed by ts.timestamp(): None or the seconds.
_parse_trade_timestamp(trade) ==
    IF trade.ts_kind = "ok" THEN Some(trade.timestamp) ELSE None

\* The records for which parsing raises an exception the poll does not catch.
TimestampRaises(record) == record.ts_kind = "range"

\* The Event Ordering Key (ts_value, trade_id) of a parsed trade.
TradeKey(trade) == <<trade.timestamp, trade.trade_id>>

\* Python's tuple comparison of two (float, str) keys.
KeyLess(k1, k2) == k1[1] < k2[1] \/ (k1[1] = k2[1] /\ StrLess(k1[2], k2[2]))
KeyGreater_orEqual(k1, k2) == ~KeyLess(k1, k2)
KeyGreater(k1, k2) == KeyLess(k2, k1)

TradeLess(t1, t2) == KeyLess(TradeKey(t1), TradeKey(t2))

\* parsed.sort(key=lambda item: item[0]): a stable sort by key, as insertion of
\* each item, in list order, behind the items that are not greater.
RECURSIVE InsertTrade(_, _)
InsertTrade(item, seq) ==
    IF seq = << >> THEN <<item>>
    ELSE IF TradeLess(item, Head(seq)) THEN <<item>> \o seq
         ELSE <<Head(seq)>> \o InsertTrade(item, Tail(seq))

SortTrades_unsorted(seq) == seq
RECURSIVE SortTrades(_)
SortTrades(seq) ==
    IF seq = << >> THEN << >>
    ELSE InsertTrade(seq[Len(seq)], SortTrades(SubSeq(seq, 1, Len(seq) - 1)))

\* The state dict of a chat with no stored trade-alert state.
FreshTradeState ==
    [enabled |-> FALSE, filters |-> None,
     last_seen_ts |-> None, last_seen_trade_id |-> ""]

\* The cursor (last_seen_ts, last_seen_trade_id) of a state with a cursor.
Cursor(state) == <<state.last_seen_ts[1], state.last_seen_trade_id>>

SetCursor(state, key) ==
    [state EXCEPT !.last_seen_ts = Some(key[1]), !.last_seen_trade_id = key[2]]

\* new_trades = [item for item in parsed if item[0] > last_key]
NewTrades_unfiltered(parsed, last_key) == parsed
NewTrades(parsed, last_key) ==
    SelectSeq(parsed, LAMBDA t : KeyGreater(TradeKey(t), last_key))

\* except Exception: log a warning and return; the state dict is not touched.
OnFetchFailure_disable(state) == [state EXCEPT !.enabled = FALSE]
OnFetchFailure(state) == state

\* One run of _poll_trades on `state` with fetch result `fetched`: the state it
\* leaves, the trades it calls send_message for, in order, and how it ended.
TradeCycle(state, fetched) ==
    LET trades == fetched.data
        parsed == SelectSeq(trades, LAMBDA t : _parse_trade_timestamp(t) # None)
        ordered == SortTrades(parsed)
        quiet(s, how) == [state |-> s, sends |-> << >>, outcome |-> how]
    IN IF ~fetched.ok THEN quiet(OnFetchFailure(state), "fetch failed")
       ELSE IF trades = << >> THEN quiet(state, "no trades")
       ELSE IF \E i \in 1..Len(trades) : TimestampRaises(trades[i])
            THEN quiet(state, "raised")
       ELSE IF parsed = << >> THEN quiet(state, "nothing parsed")
       ELSE IF state.last_seen_ts = None
            THEN quiet(SetCursor(state, TradeKey(ordered[Len(ordered)])), "bootstrap")
       ELSE LET last_key == Cursor(state)
                new_trades == NewTrades(ordered, last_key)
                latest_key == TradeKey(ordered[Len(ordered)])
            IN IF new_trades = << >>
               THEN quiet(IF KeyGreater(latest_key, last_key)
                          THEN SetCursor(state, latest_key) ELSE state,
                          "nothing new")
               ELSE [state |-> SetCursor(state, TradeKey(new_trades[Len(new_trades)])),
                     sends |-> new_trades,
                     outcome |-> "notified"]

\* ------------------------------------------------------------------- orders
\* A fetched order record, reduced to what the poll reads.  created_kind says
\* what `created_at` (or, without it, `timestamp`) holds, as ts_kind does for a
\* trade.  Account, connector, pair, side and amount are the same in all.
\* (order_id, client_order_id): an order with an id, one known by its client id
\* alone, and one with neither.
OrderIds == {<<"o1", "">>, <<"", "o1">>, <<"", "">>}

OrderRecord(ids, kind, created) ==
    [account_name |-> "acc", connector_name |-> "conn",
     order_id |-> ids[1], client_order_id |-> ids[2],
     trading_pair |-> "pair", trade_type |-> "buy", amount |-> "1",
     created_kind |-> kind, created_at |-> created]

OrderRecords ==
    {OrderRecord(ids, "ok", t) : ids \in OrderIds, t \in 1..MaxOrderTs}
    \cup {OrderRecord(ids, kind, 0) : ids \in OrderIds, kind \in {"unparsable", "range"}}

OrderBatches == SeqsUpTo(OrderRecords, MaxOrders)

\* x or y or "" on strings: the first that is not empty.
FirstNonEmpty(x, y) == IF x # "" THEN x ELSE y

_order_key(order) ==
    LET account == order.account_name
        connector == order.connector_name
        order_id == FirstNonEmpty(order.order_id, order.client_order_id)
    IN IF order_id = ""
       THEN account \o ":" \o connector \o ":" \o order.trading_pair \o ":"
                \o order.trade_type \o ":" \o order.amount
       ELSE account \o ":" \o connector \o ":" \o order_id

\* _parse_order_timestamp, then ts.timestamp() if ts else 0.0.
OrderTsValue(order) == IF order.created_kind = "ok" THEN order.created_at ELSE 0

\* sort_key = (ts.timestamp() if ts else 0.0, key)
OrderSortKey(order) == <<OrderTsValue(order), _order_key(order)>>
OrderLess(o1, o2) == KeyLess(OrderSortKey(o1), OrderSortKey(o2))

\* new_orders.sort(key=lambda item: item[0]): a stable sort by sort key.
RECURSIVE InsertOrder(_, _)
InsertOrder(item, seq) ==
    IF seq = << >> THEN <<item>>
    ELSE IF OrderLess(item, Head(seq)) THEN <<item>> \o seq
         ELSE <<Head(seq)>> \o InsertOrder(item, Tail(seq))

SortOrders_unsorted(seq) == seq
RECURSIVE SortOrders(_)
SortOrders(seq) ==
    IF seq = << >> THEN << >>
    ELSE InsertOrder(seq[Len(seq)], SortOrders(SubSeq(seq, 1, Len(seq) - 1)))

\* The state dict of a chat with no stored order-alert state.
FreshOrdersState ==
    [enabled |-> FALSE, filters |-> None,
     initialized |-> FALSE, seen_order_keys |-> None]

\* {_order_key(o) for o in orders}
OrderKeys(orders) == {_order_key(orders[i]) : i \in 1..Len(orders)}

\* set(state.get("seen_order_keys") or [])
SeenKeys(state) ==
    IF state.seen_order_keys = None THEN {} ELSE Range(state.seen_order_keys)

\* The fetched orders whose key is not in seen_keys, in fetch order.
NewOrders(orders, seen_keys) ==
    SelectSeq(orders, LAMBDA o : _order_key(o) \notin seen_keys)

\* if not orders: return.  Without the early return the bootstrap and the
\* seen_order_keys update below it would run on the empty list.
OnEmptyOrders_fallthrough(state) ==
    [state EXCEPT !.initialized = TRUE, !.seen_order_keys = sorted({})]
OnEmptyOrders(state) == state

\* One run of _poll_orders on `state` with fetch result `fetched`: the state it
\* leaves, the orders it calls send_message for, in order, and how it ended.
OrderCycle(state, fetched) ==
    LET orders == fetched.data
        seen_keys == SeenKeys(state)
        current_keys == OrderKeys(orders)
        new_orders == NewOrders(orders, seen_keys)
        quiet(s, how) == [state |-> s, sends |-> << >>, outcome |-> how]
    IN IF ~fetched.ok THEN quiet(OnFetchFailure(state), "fetch failed")
       ELSE IF orders = << >> THEN quiet(OnEmptyOrders(state), "no orders")
       ELSE IF ~state.initialized
            THEN quiet([state EXCEPT !.initialized = TRUE,
                                     !.seen_order_keys = sorted(current_keys)],
                       "bootstrap")
       ELSE IF \E i \in 1..Len(new_orders) : new_orders[i].created_kind = "range"
            THEN quiet(state, "raised")
       ELSE IF new_orders = << >>
            THEN quiet([state EXCEPT !.seen_order_keys = sorted(current_keys)],
                       "nothing new")
       ELSE [state |-> [state EXCEPT !.seen_order_keys = sorted(current_keys)],
             sends |-> SortOrders(new_orders),
             outcome |-> "notified"]

\* ------------------------------------------------------------------- state
VARIABLES
    tradeState,     \* chat -> the dict under chat_data["trade_alerts"]
    tradeJobs,      \* chat -> number of jobs named trade_alerts:<chat>
    ordersState,    \* chat -> the dict under chat_data["order_alerts"]
    ordersJobs,     \* chat -> number of jobs named order_alerts:<chat>
    notified,       \* chat, kind -> keys send_message was called for: trades
                    \*   ever, orders since the key was last absent from a fetch
    repeated,       \* chat, kind -> keys among them notified more than once
    appeared,       \* chat, kind -> keys of the records the fetches have returned
    pending,        \* chat, kind -> keys that first appeared after the bootstrap
                    \*   poll and that send_message was not yet called for
    inflight,       \* the trade poll callbacks of PollChat that are suspended at
                    \*   an await, in the order the job queue started them
    call,           \* a call of a pure function: its arguments and its result
    last            \* the last operation: the state before, the new events it
                    \*   found (sends), those send_message was called for
                    \*   (attempted), the positions whose send failed

Kinds == {"trades", "orders"}

vars == <<tradeState, tradeJobs, ordersState, ordersJobs,
          notified, repeated, appeared, pending, inflight, call, last>>
history == <<notified, repeated, appeared, pending>>
tradeVars == <<tradeState, tradeJobs>>
ordersVars == <<ordersState, ordersJobs>>

NoCall == [fn |-> "none", args |-> << >>, result |-> None]

NoOp == [op |-> "none", chat |-> PollChat, pre |-> FreshTradeState,
         filters |-> None, sends |-> << >>, attempted |-> << >>,
         failed |-> {}, outcome |-> "none", ret |-> FALSE]

\* The bot before any alert was started.
Idle ==
    /\ tradeState = [c \in Chats |-> FreshTradeState]
    /\ tradeJobs = [c \in Chats |-> 0]
    /\ ordersState = [c \in Chats |-> FreshOrdersState]
    /\ ordersJobs = [c \in Chats |-> 0]
    /\ notified = [c \in Chats, k \in Kinds |-> {}]
    /\ repeated = [c \in Chats, k \in Kinds |-> {}]
    /\ appeared = [c \in Chats, k \in Kinds |-> {}]
    /\ pending = [c \in Chats, k \in Kinds |-> {}]
    /\ inflight = << >>
    /\ last = NoOp

Init == Idle /\ call = NoCall

\* ---------------------------------------------------------------- start / stop
\* state after `if filters: state["filters"] = _merge_filters(...)`
WithFilters_replace(state, filters) ==
    IF filters # None /\ filters # EmptyDict
    THEN [state EXCEPT !.filters = filters]
    ELSE state
WithFilters(state, filters) ==
    IF filters # None /\ filters # EmptyDict
    THEN [state EXCEPT !.filters = _merge_filters(state.filters, filters)]
    ELSE state

start_trade_alerts(chat, filters) ==
    LET state == tradeState[chat]
        running == tradeJobs[chat] > 0
        post == [WithFilters(state, filters) EXCEPT !.enabled = TRUE]
    IN /\ tradeState' = [tradeState EXCEPT ![chat] = post]
       /\ tradeJobs' = [tradeJobs EXCEPT ![chat] = IF running THEN @ ELSE @ + 1]
       /\ last' = [NoOp EXCEPT !.op = "start_trade_alerts", !.chat = chat,
                               !.pre = state, !.filters = filters,
                               !.ret = ~running]
       /\ UNCHANGED <<ordersVars, history>>

\* for job in jobs: job.schedule_removal(): of the n jobs of the name, the
\* number the job queue still holds afterwards.
schedule_removal_skipped(n) == n
schedule_removal(n) == 0

stop_trade_alerts(chat) ==
    LET state == tradeState[chat]
        post == [state EXCEPT !.enabled = FALSE]
    IN /\ tradeJobs' = [tradeJobs EXCEPT ![chat] = schedule_removal(@)]
       /\ tradeState' = [tradeState EXCEPT ![chat] = post]
       /\ last' = [NoOp EXCEPT !.op = "stop_trade_alerts", !.chat = chat,
                               !.pre = state,
                               !.ret = (tradeJobs[chat] > 0)]
       /\ UNCHANGED <<ordersVars, history>>

\* Without the two `state["enabled"] = True` lines.
start_order_alerts_no_flag(chat, filters) ==
    LET state == ordersState[chat]
        running == ordersJobs[chat] > 0
        post == WithFilters(state, filters)
    IN /\ ordersState' = [ordersState EXCEPT ![chat] = post]
       /\ ordersJobs' = [ordersJobs EXCEPT ![chat] = IF running THEN @ ELSE @ + 1]
       /\ last' = [NoOp EXCEPT !.op = "start_order_alerts", !.chat = chat,
                               !.pre = state, !.filters = filters,
                               !.ret = ~running]
       /\ UNCHANGED <<tradeVars, history>>
start_order_alerts(chat, filters) ==
    LET state == ordersState[chat]
        running == ordersJobs[chat] > 0
        post == [WithFilters(state, filters) EXCEPT !.enabled = TRUE]
    IN /\ ordersState' = [ordersState EXCEPT ![chat] = post]
       /\ ordersJobs' = [ordersJobs EXCEPT ![chat] = IF running THEN @ ELSE @ + 1]
       /\ last' = [NoOp EXCEPT !.op = "start_order_alerts", !.chat = chat,
                               !.pre = state, !.filters = filters,
                               !.ret = ~running]
       /\ UNCHANGED <<tradeVars, history>>

\* job_name = _job_name(chat_id): the jobs removed are those of the trade alerts.
stop_order_alerts_trade_job(chat) ==
    LET state == ordersState[chat]
        post == [state EXCEPT !.enabled = FALSE]
    IN /\ tradeJobs' = [tradeJobs EXCEPT ![chat] = schedule_removal(@)]
       /\ ordersState' = [ordersState EXCEPT ![chat] = post]
       /\ last' = [NoOp EXCEPT !.op = "stop_order_alerts", !.chat = chat,
                               !.pre = state,
                               !.ret = (tradeJobs[chat] > 0)]
       /\ UNCHANGED <<tradeState, ordersJobs, history>>

stop_order_alerts(chat) ==
    LET state == ordersState[chat]
        post == [state EXCEPT !.enabled = FALSE]
    IN /\ ordersJobs' = [ordersJobs EXCEPT ![chat] = schedule_removal(@)]
       /\ ordersState' = [ordersState EXCEPT ![chat] = post]
       /\ last' = [NoOp EXCEPT !.op = "stop_order_alerts", !.chat = chat,
                               !.pre = state,
                               !.ret = (ordersJobs[chat] > 0)]
       /\ UNCHANGED <<tradeVars, history>>

\* ----------------------------------------------------------------- poll cycles
\* for ... in new_trades (new_orders): try: await send_message(...) except
\* Exception: log a warning.  `failed` holds the positions whose send_message
\* raises.  The loop gives the items send_message was called for, in order, and
\* whether control reaches the statements after the loop (the state commit).
SendLoop_propagate(items, failed) ==
    IF failed = {} THEN [attempted |-> items, completed |-> TRUE]
    ELSE LET first == CHOOSE i \in failed : \A j \in failed : i <= j
         IN [attempted |-> SubSeq(items, 1, first), completed |-> FALSE]
SendLoop(items, failed) == [attempted |-> items, completed |-> TRUE]

\* The keys of a list of trades, and the keys that a list of sent records
\* (trades or orders) holds more than once.
TradeKeys(trades) == {TradeKey(trades[i]) : i \in 1..Len(trades)}
KeyList(sends, kind) ==
    [i \in 1..Len(sends) |->
        IF kind = "trades" THEN TradeKey(sends[i]) ELSE _order_key(sends[i])]
RepeatedIn(sends, kind) ==
    LET keys == KeyList(sends, kind)
    IN {keys[i] : i \in {j \in 1..Len(keys) :
           \E k \in 1..Len(keys) : k # j /\ keys[k] = keys[j]}}

\* The job queue runs the callback of a registered job; `fetched` is what the
\* client returns and `failed` the positions whose send_message raises.
\* `appeared` and `pending` are left to the specification: see Watch.
_poll_trades(chat, fetched, failed) ==
    \E r \in {TradeCycle(tradeState[chat], fetched)} :
       LET loop == SendLoop(r.sends, failed)
       IN
       /\ tradeJobs[chat] > 0
       /\ failed \subseteq 1..Len(r.sends)
       /\ tradeState' = [tradeState EXCEPT ![chat] =
              IF loop.completed THEN r.state ELSE @]
       /\ notified' = [notified EXCEPT ![chat, "trades"] =
              @ \cup TradeKeys(loop.attempted)]
       /\ repeated' = [repeated EXCEPT ![chat, "trades"] =
              @ \cup RepeatedIn(loop.attempted, "trades")
                \cup (notified[chat, "trades"] \cap TradeKeys(loop.attempted))]
       /\ last' = [NoOp EXCEPT !.op = "_poll_trades", !.chat = chat,
                               !.pre = tradeState[chat], !.sends = r.sends,
                               !.attempted = loop.attempted,
                               !.failed = failed, !.outcome = r.outcome]
       /\ UNCHANGED <<tradeJobs, ordersVars>>

\* For orders `notified` follows a key only while it stays in the fetch
\* results: a successful fetch without the key ends the key's run.
_poll_orders(chat, fetched, failed) ==
    \E r \in {OrderCycle(ordersState[chat], fetched)} :
       LET present == IF fetched.ok THEN OrderKeys(fetched.data)
                      ELSE notified[chat, "orders"]
           running == notified[chat, "orders"] \cap present
           loop == SendLoop(r.sends, failed)
       IN
       /\ ordersJobs[chat] > 0
       /\ failed \subseteq 1..Len(r.sends)
       /\ ordersState' = [ordersState EXCEPT ![chat] =
              IF loop.completed THEN r.state ELSE @]
       /\ notified' = [notified EXCEPT ![chat, "orders"] =
              running \cup OrderKeys(loop.attempted)]
       /\ repeated' = [repeated EXCEPT ![chat, "orders"] =
              @ \cup RepeatedIn(loop.attempted, "orders")
                \cup (running \cap OrderKeys(loop.attempted))]
       /\ last' = [NoOp EXCEPT !.op = "_poll_orders", !.chat = chat,
                               !.pre = ordersState[chat], !.sends = r.sends,
                               !.attempted = loop.attempted,
                               !.failed = failed, !.outcome = r.outcome]
       /\ UNCHANGED <<ordersJobs, tradeVars>>

TradeFetches == {FetchFailed} \cup {FetchOk(b) : b \in TradeBatches}
OrderFetches == {FetchFailed} \cup {FetchOk(b) : b \in OrderBatches}

\* ------------------------------------------------------------ specification
\* The two kinds keep separate state dicts and separate jobs, so a behaviour
\* follows the alerts of one kind: the other kind of the chat stays unused.
\* Here a poll callback runs from its start to its return as one step.
TradesUnused == tradeState[PollChat] = FreshTradeState /\ tradeJobs[PollChat] = 0
OrdersUnused == ordersState[PollChat] = FreshOrdersState /\ ordersJobs[PollChat] = 0

StartTrades ==
    /\ OrdersUnused
    /\ \E f \in StartFilters : start_trade_alerts(PollChat, f)
    /\ UNCHANGED <<inflight, call>>
StopTrades == OrdersUnused /\ stop_trade_alerts(PollChat) /\ UNCHANGED <<inflight, call>>
PollTrades ==
    /\ OrdersUnused
    /\ \E fetched \in TradeFetches :
        \E failed \in SUBSET (1..Len(TradeCycle(tradeState[PollChat], fetched).sends)) :
            /\ _poll_trades(PollChat, fetched, failed)
            /\ UNCHANGED <<appeared, pending, inflight, call>>

StartOrders ==
    /\ TradesUnused
    /\ \E f \in StartFilters : start_order_alerts(PollChat, f)
    /\ UNCHANGED <<inflight, call>>
StopOrders == TradesUnused /\ stop_order_alerts(PollChat) /\ UNCHANGED <<inflight, call>>
PollOrders ==
    /\ TradesUnused
    /\ \E fetched \in OrderFetches :
        \E failed \in SUBSET (1..Len(OrderCycle(ordersState[PollChat], fetched).sends)) :
            /\ _poll_orders(PollChat, fetched, failed)
            /\ UNCHANGED <<appeared, pending, inflight, call>>

Next ==
    \/ StartTrades \/ StopTrades \/ PollTrades
    \/ StartOrders \/ StopOrders \/ PollOrders

Spec == Init /\ [][Next]_vars

\* The chat stays enabled, every fetch succeeds and the job queue keeps running
\* the callback of a registered job: no stop, no failed fetch, and a poll that
\* can run does run.  This specification also follows which keys the fetches
\* have returned: a poll that fetched the keys `fetched_keys`, after the
\* bootstrap poll or not, and called send_message for the keys `sent`.
Watch(chat, kind, fetched_keys, after_bootstrap, sent) ==
    /\ appeared' = [appeared EXCEPT ![chat, kind] = @ \cup fetched_keys]
    /\ pending' = [pending EXCEPT ![chat, kind] =
           (@ \cup IF after_bootstrap THEN fetched_keys \ appeared[chat, kind] ELSE {})
               \ sent]

ValidTrades(batch) == SelectSeq(batch, LAMBDA t : t.ts_kind = "ok")

PollTradesFetched ==
    /\ OrdersUnused
    /\ \E batch \in TradeBatches :
        LET r == TradeCycle(tradeState[PollChat], FetchOk(batch))
        IN \E failed \in SUBSET (1..Len(r.sends)) :
            /\ _poll_trades(PollChat, FetchOk(batch), failed)
            /\ Watch(PollChat, "trades", TradeKeys(ValidTrades(batch)),
                     tradeState[PollChat].last_seen_ts # None,
                     TradeKeys(r.sends))
            /\ UNCHANGED <<inflight, call>>

PollOrdersFetched ==
    /\ TradesUnused
    /\ \E batch \in OrderBatches :
        LET r == OrderCycle(ordersState[PollChat], FetchOk(batch))
        IN \E failed \in SUBSET (1..Len(r.sends)) :
            /\ _poll_orders(PollChat, FetchOk(batch), failed)
            /\ Watch(PollChat, "orders", OrderKeys(batch),
                     ordersState[PollChat].initialized,
                     OrderKeys(r.sends))
            /\ UNCHANGED <<inflight, call>>

EnabledNext ==
    StartTrades \/ PollTradesFetched \/ StartOrders \/ PollOrdersFetched

FairSpec ==
    Init /\ [][EnabledNext]_vars
         /\ WF_vars(PollTradesFetched) /\ WF_vars(PollOrdersFetched)

\* --------------------------------------------- all chats and kinds together
\* Both kinds of alerts of every chat are started, stopped and polled in any
\* order.  A handler gets the chat_data of its own chat, and a job is made with
\* chat_id=chat_id, so that the state dict an operation reads is the one of the
\* chat it is called for.  The fetches return one record, or fail.
OneConnector == [k \in {"connector_names"} |-> <<"binance">>]
FewTradeFetches ==
    {FetchFailed} \cup
    {FetchOk(<<[ts_kind |-> "ok", timestamp |-> t, trade_id |-> "a"]>>) : t \in 1..MaxTs}
FewOrderFetches ==
    {FetchFailed} \cup {FetchOk(<<OrderRecord(ids, "ok", 1)>>) : ids \in OrderIds}

Untouched == UNCHANGED <<appeared, pending, inflight, call>>

AnyStartTrades == \E c \in Chats : start_trade_alerts(c, OneConnector) /\ Untouched
AnyStopTrades == \E c \in Chats : stop_trade_alerts(c) /\ Untouched
AnyPollTrades ==
    \E c \in Chats, fetched \in FewTradeFetches :
        _poll_trades(c, fetched, {}) /\ Untouched
AnyStartOrders == \E c \in Chats : start_order_alerts(c, OneConnector) /\ Untouched
AnyStopOrders == \E c \in Chats : stop_order_alerts(c) /\ Untouched
AnyPollOrders ==
    \E c \in Chats, fetched \in FewOrderFetches :
        _poll_orders(c, fetched, {}) /\ Untouched

AllNext ==
    \/ AnyStartTrades \/ AnyStopTrades \/ AnyPollTrades
    \/ AnyStartOrders \/ AnyStopOrders \/ AnyPollOrders

AllSpec == Init /\ [][AllNext]_vars

\* ------------------------------------------------- suspended poll callbacks
\* _poll_trades is a coroutine: it is suspended at `await get_trades(...)` and
\* at each `await send_message(...)`, and start, stop and other callbacks run
\* meanwhile.  The job queue does not start the callback of a job whose
\* previous run has not returned; schedule_removal takes the job out of the
\* queue and leaves a run that is suspended to go on; run_repeating in a later
\* start makes a new job.  An element of `inflight` is one suspended run:
\*   registered  its job is still in the job queue
\*   pc          "start": its task is made, its first statement not yet run;
\*               "fetch": at await get_trades;  "send": at await send_message
\*   items, next new_trades of the run, and the position it is sending
\* The fetches return valid trades with distinct keys, or fail.
DistinctTradeBatches ==
    {b \in TradeBatches : ValidTrades(b) = b /\ Cardinality(TradeKeys(b)) = Len(b)}

RemoveAt(seq, i) == SubSeq(seq, 1, i - 1) \o SubSeq(seq, i + 1, Len(seq))

AsyncFrame == UNCHANGED <<ordersVars, appeared, pending, call>>

AsyncStart ==
    /\ OrdersUnused
    /\ start_trade_alerts(PollChat, None)
    /\ UNCHANGED <<inflight, call>>

AsyncStop ==
    /\ OrdersUnused
    /\ stop_trade_alerts(PollChat)
    /\ inflight' = [i \in DOMAIN inflight |->
                       [inflight[i] EXCEPT !.registered = FALSE]]
    /\ UNCHANGED call

\* The job queue makes the task that runs the callback of the job; the event
\* loop runs it from its first statement in a later step (BeginPoll).
InvokePoll ==
    /\ tradeJobs[PollChat] > 0
    /\ Len(inflight) < MaxInFlight
    /\ \A i \in DOMAIN inflight : ~inflight[i].registered
    /\ inflight' = Append(inflight, [registered |-> TRUE, pc |-> "start",
                                     items |-> << >>, next |-> 0])
    /\ last' = [NoOp EXCEPT !.op = "invoke"]
    /\ UNCHANGED <<tradeVars, notified, repeated>>
    /\ AsyncFrame

\* Run i executes lines 257-278: it reads chat_id, the state dict, the filters
\* and the cursor, and calls get_trades.  `enabled` is not read.
BeginPolls(i) ==
    /\ inflight[i].pc = "start"
    /\ inflight' = [inflight EXCEPT ![i].pc = "fetch"]
    /\ last' = [NoOp EXCEPT !.op = "begin poll", !.pre = tradeState[PollChat],
                            !.outcome = "fetching"]
    /\ UNCHANGED <<tradeVars, notified, repeated>>
    /\ AsyncFrame

\* get_trades returns or raises in run i: lines 285-323 run without an await.
\* A run with new trades goes on to its first send_message and is suspended
\* there; any other run returns, with the state TradeCycle leaves.
FetchReturns(i, fetched) ==
    LET r == TradeCycle(tradeState[PollChat], fetched)
    IN /\ inflight[i].pc = "fetch"
       /\ IF r.sends = << >>
          THEN /\ tradeState' = [tradeState EXCEPT ![PollChat] = r.state]
               /\ inflight' = RemoveAt(inflight, i)
          ELSE /\ inflight' = [inflight EXCEPT ![i].pc = "send",
                                               ![i].items = r.sends,
                                               ![i].next = 1]
               /\ UNCHANGED tradeState
       /\ last' = [NoOp EXCEPT !.op = "fetch returns", !.pre = tradeState[PollChat],
                               !.outcome = r.outcome]
       /\ UNCHANGED <<tradeJobs, notified, repeated>>
       /\ AsyncFrame

\* send_message of run i returns or raises (the exception is caught and
\* logged): the run goes on to the next send_message, or, after the last one,
\* to lines 337-339, which write the key of its last new trade into the state.
SendReturns(i) ==
    LET run == inflight[i]
        key == TradeKey(run.items[run.next])
    IN /\ run.pc = "send"
       /\ notified' = [notified EXCEPT ![PollChat, "trades"] = @ \cup {key}]
       /\ repeated' = [repeated EXCEPT ![PollChat, "trades"] =
              @ \cup ({key} \cap notified[PollChat, "trades"])]
       /\ IF run.next = Len(run.items)
          THEN /\ tradeState' = [tradeState EXCEPT ![PollChat] = SetCursor(@, key)]
               /\ inflight' = RemoveAt(inflight, i)
          ELSE /\ inflight' = [inflight EXCEPT ![i].next = @ + 1]
               /\ UNCHANGED tradeState
       /\ last' = [NoOp EXCEPT !.op = "send returns", !.pre = tradeState[PollChat]]
       /\ UNCHANGED tradeJobs
       /\ AsyncFrame

AsyncFetches == {FetchFailed} \cup {FetchOk(b) : b \in DistinctTradeBatches}

BeginPoll == \E i \in DOMAIN inflight : BeginPolls(i)
FetchReturn == \E i \in DOMAIN inflight : \E f \in AsyncFetches : FetchReturns(i, f)
SendReturn == \E i \in DOMAIN inflight : SendReturns(i)

AsyncNext ==
    AsyncStart \/ AsyncStop \/ InvokePoll \/ BeginPoll \/ FetchReturn \/ SendReturn

AsyncSpec == Init /\ [][AsyncNext]_vars

\* ------------------------------------------------------- calls of _merge_filters
\* The filter dicts a caller can pass: for each key either no entry or a list,
\* which can be empty, unsorted or hold a value twice.  A dict with no entry is
\* {} (and None: `existing or {}` reads both alike).
FilterLists ==
    [account_names |-> {<<"a">>},
     connector_names |-> {<< >>, <<"kucoin", "binance">>, <<"binance", "binance">>},
     trading_pairs |-> {<<"b", "a">>}]

Filters ==
    UNION {{f \in [D -> UNION {FilterLists[k] : k \in D}] :
               \A k \in D : f[k] \in FilterLists[k]} : D \in SUBSET FilterKeySet}

\* Three filter dicts are chosen, then _merge_filters is called on two of them.
MergeInit ==
    /\ Idle
    /\ \E a \in Filters, b \in Filters, c \in Filters :
          call = [NoCall EXCEPT !.args = <<a, b, c>>]

MergeCall ==
    /\ \E i \in 1..3, j \in 1..3 :
          call' = [fn |-> "_merge_filters", args |-> call.args,
                   result |-> <<i, j, _merge_filters(call.args[i], call.args[j])>>]
    /\ UNCHANGED <<tradeVars, ordersVars, history, inflight, last>>

MergeSpec == MergeInit /\ [][MergeCall]_vars

\* --------------------------------------------------------------------- toggle
\* is_trade_alerts_enabled for a chat whose job queue holds `jobs` jobs of the
\* name and whose state dict is `state`: a job, or else the enabled flag.
is_trade_alerts_enabled(jobs, state) == jobs > 0 \/ state.enabled

\* Sets the flag to False without calling stop_trade_alerts.
Toggled_flag_only(jobs, state) ==
    IF is_trade_alerts_enabled(jobs, state)
    THEN [jobs |-> jobs, state |-> [state EXCEPT !.enabled = FALSE]]
    ELSE [jobs |-> IF jobs > 0 THEN jobs ELSE jobs + 1,
          state |-> [WithFilters(state, state.filters) EXCEPT !.enabled = TRUE]]
\* What handle_toggle_trade_alerts leaves: stop_trade_alerts when the alerts
\* are enabled, else start_trade_alerts with filters=state.get("filters").
Toggled(jobs, state) ==
    IF is_trade_alerts_enabled(jobs, state)
    THEN [jobs |-> schedule_removal(jobs),
          state |-> [state EXCEPT !.enabled = FALSE]]
    ELSE [jobs |-> IF jobs > 0 THEN jobs ELSE jobs + 1,
          state |-> [WithFilters(state, state.filters) EXCEPT !.enabled = TRUE]]

handle_toggle_trade_alerts(chat) ==
    LET state == tradeState[chat]
        was_enabled == is_trade_alerts_enabled(tradeJobs[chat], state)
        post == Toggled(tradeJobs[chat], state)
    IN /\ tradeState' = [tradeState EXCEPT ![chat] = post.state]
       /\ tradeJobs' = [tradeJobs EXCEPT ![chat] = post.jobs]
       /\ last' = [NoOp EXCEPT !.op = "handle_toggle_trade_alerts",
                               !.chat = chat, !.pre = state,
                               !.filters = IF was_enabled THEN None
                                           ELSE state.filters,
                               !.ret = was_enabled]
       /\ UNCHANGED <<ordersVars, history>>

\* The state dicts a restart of the bot can restore for a chat: the flag, the
\* filters starts have stored and the cursor polls have left.
RestoredFilters == {_merge_filters(a, b) : a \in StartFilters, b \in StartFilters}

RestoredTradeStates ==
    {[s EXCEPT !.enabled = e, !.filters = f] :
        s \in {FreshTradeState}
               \cup {SetCursor(FreshTradeState, TradeKey(t)) :
                        t \in {r \in TradeRecords : r.ts_kind = "ok"}},
        e \in BOOLEAN, f \in RestoredFilters}

\* After a restart the job queue is empty and chat_data is what was persisted.
ToggleInit ==
    /\ tradeState \in [Chats -> RestoredTradeStates]
    /\ \A c \in Chats \ {PollChat} : tradeState[c] = FreshTradeState
    /\ tradeJobs = [c \in Chats |-> 0]
    /\ ordersState = [c \in Chats |-> FreshOrdersState]
    /\ ordersJobs = [c \in Chats |-> 0]
    /\ notified = [c \in Chats, k \in Kinds |-> {}]
    /\ repeated = [c \in Chats, k \in Kinds |-> {}]
    /\ appeared = [c \in Chats, k \in Kinds |-> {}]
    /\ pending = [c \in Chats, k \in Kinds |-> {}]
    /\ inflight = << >>
    /\ call = NoCall
    /\ last = NoOp

ToggleTrades ==
    handle_toggle_trade_alerts(PollChat) /\ UNCHANGED <<inflight, call>>

ToggleStart ==
    /\ \E f \in StartFilters : start_trade_alerts(PollChat, f)
    /\ UNCHANGED <<inflight, call>>

ToggleStop == stop_trade_alerts(PollChat) /\ UNCHANGED <<inflight, call>>

TogglePoll ==
    /\ \E fetched \in TradeFetches : _poll_trades(PollChat, fetched, {})
    /\ UNCHANGED <<appeared, pending, inflight, call>>

ToggleNext == ToggleTrades \/ ToggleStart \/ ToggleStop \/ TogglePoll

ToggleSpec == ToggleInit /\ [][ToggleNext]_vars

\* Callers start and stop the trade alerts of a chat with any filter dict.
FilterStart ==
    /\ \E f \in Filters : start_trade_alerts(PollChat, f)
    /\ UNCHANGED <<inflight, call>>

FilterStop == stop_trade_alerts(PollChat) /\ UNCHANGED <<inflight, call>>

FilterSpec == Init /\ [][FilterStart \/ FilterStop]_vars

\* _normalize_list(value): None for None or an empty list, else the items that
\* are not empty, or None when there is none.  None is << >>.
_normalize_list(value) == SelectSeq(value, LAMBDA v : v # "")

\* The argument the poll passes to the client for a filter key:
\* _normalize_list(filters.get(key)).
QueryParam(filters, key) == _normalize_list(FilterGet(filters, key))

\* The events a client can hold, by the fields the filter keys select on.
Events ==
    [account_name : {"a", "b"}, connector_name : {"binance", "kucoin"},
     trading_pair : {"a", "b"}]

EventField ==
    [account_names |-> "account_name", connector_names |-> "connector_name",
     trading_pairs |-> "trading_pair"]

\* The client returns an event for the arguments of a poll: an argument that
\* is None puts no constraint, a list admits the events whose field is in it.
Matches(event, filters) ==
    \A key \in FilterKeySet :
        LET param == QueryParam(filters, key)
        IN param = None \/ event[EventField[key]] \in Range(param)

\* ------------------------------------------------ start_time of the trade fetch
\* int(x) for the quotient x = n / d of integers, d > 0: towards zero.
IntOfQuotient(n, d) == IF n >= 0 THEN n \div d ELSE -((-n) \div d)

Max(x, y) == IF x >= y THEN x ELSE y

\* Lines 269-274: last_seen is state.get("last_seen_ts"), None or a float of
\* seconds, here Some(ticks).  float(last_seen) * 1000 is ticks / TicksPerMs.
start_time_unclamped(last_seen) ==
    IF last_seen = None THEN None
    ELSE Some(IntOfQuotient(last_seen[1], TicksPerMs) - MarginMs)
start_time(last_seen) ==
    IF last_seen = None THEN None
    ELSE Some(Max(0, IntOfQuotient(last_seen[1], TicksPerMs) - MarginMs))

\* The cursors a poll can find: none, or the timestamp of a trade.
CursorValues == {None} \cup {Some(t) : t \in -MaxCursorTicks..MaxCursorTicks}

StartTimeInit ==
    /\ Idle
    /\ \E cursor \in CursorValues : call = [NoCall EXCEPT !.args = <<cursor>>]

StartTimeCall ==
    /\ call.fn = "none"
    /\ call' = [fn |-> "start_time", args |-> call.args,
                result |-> start_time(call.args[1])]
    /\ UNCHANGED <<tradeVars, ordersVars, history, inflight, last>>

StartTimeSpec == StartTimeInit /\ [][StartTimeCall]_vars

\* ------------------------------------------------------------------- claims
Polls == {"_poll_trades", "_poll_orders"}

\* The greatest Event Ordering Key among the records of a batch of valid trades.
MaxKey(batch) ==
    CHOOSE k \in TradeKeys(batch) :
        \A other \in TradeKeys(batch) : ~KeyLess(k, other)

AllValid(batch) == \A i \in 1..Len(batch) : batch[i].ts_kind = "ok"

\* How often a record occurs in a list.
Count(rec, seq) == Cardinality({i \in 1..Len(seq) : seq[i] = rec})

\* The trade poll can run on the chat and finds a cursor.
TradePollWithCursor ==
    tradeJobs[PollChat] > 0 /\ tradeState[PollChat].last_seen_ts # None

\* C1: over any sequence of trade poll cycles of a chat, send_message is called
\* at most once for a given Event Ordering Key (timestamp, trade_id).
C1_NoDuplicateTrades ==
    repeated[PollChat, "trades"] = {}

\* C2: once the cursor (last_seen_ts, last_seen_trade_id) of a chat is set, no
\* step makes it absent again or smaller under the (timestamp, trade_id) order.
C2_CursorMonotone ==
    [][\A c \in Chats :
          tradeState[c].last_seen_ts # None =>
              /\ tradeState'[c].last_seen_ts # None
              /\ ~KeyLess(Cursor(tradeState'[c]), Cursor(tradeState[c]))]_vars

\* C2 witness: a trade poll has moved a cursor that was set to a greater key.
C2_Witness ==
    /\ last.op = "_poll_trades"
    /\ last.pre.last_seen_ts # None
    /\ KeyLess(Cursor(last.pre), Cursor(tradeState[last.chat]))

\* C3: a trade poll that finds no cursor and fetches N >= 1 valid trades sends
\* nothing and sets the cursor to the greatest key among the fetched trades.
C3_BootstrapSuppression ==
    (tradeJobs[PollChat] > 0 /\ tradeState[PollChat].last_seen_ts = None) =>
        \A batch \in TradeBatches :
            (batch # << >> /\ AllValid(batch)) =>
                LET r == TradeCycle(tradeState[PollChat], FetchOk(batch))
                IN /\ r.sends = << >>
                   /\ r.state.last_seen_ts # None
                   /\ Cursor(r.state) = MaxKey(batch)

\* C3 witness: a trade poll that found no cursor has set one and sent nothing.
C3_Witness ==
    /\ last.op = "_poll_trades"
    /\ last.outcome = "bootstrap"
    /\ last.pre.last_seen_ts = None
    /\ last.sends = << >>
    /\ tradeState[last.chat].last_seen_ts # None

\* C4: a trade poll that finds cursor c and fetches a batch sends exactly the
\* valid fetched records with key > c; when it sends any, the cursor becomes the
\* key of the last one sent, which is the greatest key of the batch.
C4_DeltaClassification ==
    TradePollWithCursor =>
        \A batch \in TradeBatches :
            LET state == tradeState[PollChat]
                r == TradeCycle(state, FetchOk(batch))
                valid == SelectSeq(batch, LAMBDA t : t.ts_kind = "ok")
                is_new(t) == t.ts_kind = "ok" /\ KeyLess(Cursor(state), TradeKey(t))
            IN /\ \A t \in TradeRecords :
                      Count(t, r.sends) = IF is_new(t) THEN Count(t, batch) ELSE 0
               /\ r.sends # << >> =>
                      /\ Cursor(r.state) = TradeKey(r.sends[Len(r.sends)])
                      /\ Cursor(r.state) = MaxKey(valid)

\* C5: from any state, a second poll cycle (trades or orders) with the fetch
\* result of the first sends nothing and leaves the state as the first left it.
C5_PollIdempotence ==
    /\ tradeJobs[PollChat] > 0 =>
          \A batch \in TradeBatches :
              LET first == TradeCycle(tradeState[PollChat], FetchOk(batch))
                  second == TradeCycle(first.state, FetchOk(batch))
              IN second.sends = << >> /\ second.state = first.state
    /\ ordersJobs[PollChat] > 0 =>
          \A batch \in OrderBatches :
              LET first == OrderCycle(ordersState[PollChat], FetchOk(batch))
                  second == OrderCycle(first.state, FetchOk(batch))
              IN second.sends = << >> /\ second.state = first.state

\* C5 witness: a poll has just sent notifications, so a second run with the
\* same fetch result starts from a state the first run changed.
C5_Witness ==
    /\ last.op \in Polls
    /\ last.outcome = "notified"
    /\ last.sends # << >>

\* The keys a fetched record can have in the model.
TradeKeySet == (1..MaxTs) \X TradeIds
OrderKeySet == {_order_key(o) : o \in OrderRecords}

\* C6: while the chat stays enabled and the polls run with successful fetches,
\* every trade (order) key that first appears in a fetch result after the
\* bootstrap poll is notified eventually, and no key is notified twice.
C6_OneMessagePerEvent ==
    /\ [](repeated[PollChat, "trades"] = {} /\ repeated[PollChat, "orders"] = {})
    /\ \A k \in TradeKeySet :
          (k \in pending[PollChat, "trades"]) ~> (k \notin pending[PollChat, "trades"])
    /\ \A k \in OrderKeySet :
          (k \in pending[PollChat, "orders"]) ~> (k \notin pending[PollChat, "orders"])

\* C7: an order poll that fetches successfully while the tracker is not
\* initialized sets initialized, sets seen_order_keys to exactly the keys of the
\* fetched orders, whatever the batch is, and sends nothing; the next poll then
\* finds the tracker initialized.
C7_OrderBootstrap ==
    (ordersJobs[PollChat] > 0 /\ ~ordersState[PollChat].initialized) =>
        \A batch \in OrderBatches :
            LET r == OrderCycle(ordersState[PollChat], FetchOk(batch))
            IN /\ r.state.initialized
               /\ SeenKeys(r.state) = OrderKeys(batch)
               /\ r.sends = << >>

\* C8: an order key that stays in every successful fetch result of a run of
\* consecutive cycles is notified at most once during the run.
C8_OrderAtMostOnce ==
    repeated[PollChat, "orders"] = {}

\* C9: when every order fetch returns the same batch S, seen_order_keys is the
\* key set of S after at most one further cycle and stays it.
C9_OrderSetConvergence ==
    ordersJobs[PollChat] > 0 =>
        \A batch \in OrderBatches :
            LET first == OrderCycle(ordersState[PollChat], FetchOk(batch))
                second == OrderCycle(first.state, FetchOk(batch))
                third == OrderCycle(second.state, FetchOk(batch))
            IN /\ SeenKeys(second.state) = OrderKeys(batch)
               /\ SeenKeys(third.state) = OrderKeys(batch)

\* C10: a poll cycle whose client call fails sends nothing and leaves the state
\* dicts (enabled, filters, cursor, initialized, seen keys) and the jobs as they
\* were, so the next cycle of the job runs from the unchanged state.
C10_FetchFailureNoEffect ==
    [][(last'.op \in Polls /\ last'.outcome = "fetch failed") =>
          /\ last'.sends = << >>
          /\ UNCHANGED <<tradeState, ordersState, tradeJobs, ordersJobs>>
          /\ tradeJobs[last'.chat] + ordersJobs[last'.chat] > 0]_vars

\* C10 witness: a fetch has failed in a poll of a chat that holds filters and a
\* cursor.
C10_Witness ==
    /\ last.op = "_poll_trades"
    /\ last.outcome = "fetch failed"
    /\ tradeState[last.chat].enabled
    /\ tradeState[last.chat].filters # None
    /\ tradeState[last.chat].last_seen_ts # None

Starts == {"start_trade_alerts", "start_order_alerts"}
Stops == {"stop_trade_alerts", "stop_order_alerts"}

\* C12: at most one job is registered for a chat and kind at any time; start
\* returns true exactly when no job was registered before the call, and then
\* registers one; when one was registered it returns false and registers no
\* second one; in both cases the stored filters become
\* _merge_filters(stored filters, requested filters) and enabled is set.
C12_StartIdempotent ==
    /\ [](\A c \in Chats : tradeJobs[c] <= 1 /\ ordersJobs[c] <= 1)
    /\ [][last'.op \in Starts =>
             LET c == last'.chat
                 trades == last'.op = "start_trade_alerts"
                 jobs_before == IF trades THEN tradeJobs[c] ELSE ordersJobs[c]
                 jobs_after == IF trades THEN tradeJobs'[c] ELSE ordersJobs'[c]
                 stored == IF trades THEN tradeState[c].filters
                           ELSE ordersState[c].filters
                 after == IF trades THEN tradeState'[c] ELSE ordersState'[c]
             IN /\ last'.ret = (jobs_before = 0)
                /\ jobs_after = 1
                /\ after.filters = _merge_filters(stored, last'.filters)
                /\ after.enabled]_vars

\* C12 witness: a start on a chat whose job was already registered has returned
\* false and widened the stored filters.
C12_Witness ==
    /\ last.op \in Starts
    /\ ~last.ret
    /\ last.pre.filters # None
    /\ last.filters # None
    /\ LET after == IF last.op = "start_trade_alerts" THEN tradeState[last.chat]
                     ELSE ordersState[last.chat]
       IN after.filters # last.pre.filters /\ after.filters # last.filters

\* C13: after stop for a chat and kind no job is registered for it and its
\* enabled flag is false; stop returns true exactly when a job was registered
\* before the call, so a stop that directly follows a stop returns false.
C13_Stop ==
    [][last'.op \in Stops =>
          LET c == last'.chat
              trades == last'.op = "stop_trade_alerts"
              jobs_before == IF trades THEN tradeJobs[c] ELSE ordersJobs[c]
              jobs_after == IF trades THEN tradeJobs'[c] ELSE ordersJobs'[c]
              after == IF trades THEN tradeState'[c] ELSE ordersState'[c]
          IN /\ jobs_after = 0
             /\ ~after.enabled
             /\ last'.ret = (jobs_before > 0)
             /\ (last.op = last'.op /\ last.chat = c) => ~last'.ret]_vars

\* C13 witness: a stop has returned false on a chat that was started and
\* stopped before.
C13_Witness ==
    /\ last.op \in Stops
    /\ ~last.ret
    /\ ~last.pre.enabled
    /\ last.pre.filters # None

\* C14: when the poll callback is suspended at the fetch and at each send, under
\* every interleaving of start, stop and the job queue's invocations for one
\* chat, at most one trade poll callback of the chat is in flight at a time, no
\* trade key is notified twice, and the cursor never moves backwards.
C14_CommitBeforeNextFetch ==
    /\ [](Len(inflight) <= 1)
    /\ [](repeated[PollChat, "trades"] = {})
    /\ [][tradeState[PollChat].last_seen_ts # None =>
             /\ tradeState'[PollChat].last_seen_ts # None
             /\ ~KeyLess(Cursor(tradeState'[PollChat]),
                         Cursor(tradeState[PollChat]))]_vars

\* C15: for all filter dicts a, b, c (empty and absent ones included)
\* _merge_filters is commutative, associative and idempotent, and a call of it
\* leaves its arguments as they were.
C15_FilterUnionLaws ==
    /\ [](LET a == call.args[1]
               b == call.args[2]
               c == call.args[3]
           IN
             /\ _merge_filters(a, b) = _merge_filters(b, a)
             /\ _merge_filters(_merge_filters(a, b), c)
                    = _merge_filters(a, _merge_filters(b, c))
             /\ _merge_filters(_merge_filters(a, b), b) = _merge_filters(a, b))
    /\ [][call'.fn = "_merge_filters" =>
             /\ call'.args = call.args
             /\ call'.result[3] =
                    _merge_filters(call.args[call'.result[1]], call.args[call'.result[2]])]_vars

\* C15 witness: _merge_filters was called on two dicts that hold different
\* values for one key, and the result is neither of the two.
C15_Witness ==
    /\ call.fn = "_merge_filters"
    /\ LET a == call.args[call.result[1]]
           b == call.args[call.result[2]]
           merged == call.result[3]
       IN /\ "connector_names" \in DOMAIN a \cap DOMAIN b
          /\ a["connector_names"] # b["connector_names"]
          /\ merged # a /\ merged # b
          /\ DOMAIN a # DOMAIN b

\* C16: for all filter dicts a and b and every event e, if e matches a then e
\* matches _merge_filters(a, b), where a key without entry puts no constraint.
C16_MergeWidens ==
    call.fn = "_merge_filters" =>
        LET a == call.args[call.result[1]]
            merged == call.result[3]
        IN \A e \in Events : Matches(e, a) => Matches(e, merged)

\* C17: a poll callback that starts to run for a chat whose state has
\* enabled = false makes no fetch, sends nothing and leaves the state as it is.
C17_SkipIfDisabled ==
    [][(last'.op = "begin poll" /\ ~tradeState[PollChat].enabled) =>
          /\ last'.outcome # "fetching"
          /\ \A i \in DOMAIN inflight' : inflight'[i].pc # "fetch"
          /\ UNCHANGED <<tradeState, notified>>]_vars

\* The kind of alerts an operation works on.
KindOf(op) ==
    IF op \in {"start_trade_alerts", "stop_trade_alerts", "_poll_trades"}
    THEN "trades" ELSE "orders"

\* C18: a start, stop or poll cycle of one chat and kind leaves the state dict
\* (enabled, filters, cursor or seen keys) and the jobs of every other chat and
\* of the other kind as they were.
C18_Independence ==
    [][\A c \in Chats :
          /\ (last'.chat # c \/ KindOf(last'.op) # "trades") =>
                 tradeState'[c] = tradeState[c] /\ tradeJobs'[c] = tradeJobs[c]
          /\ (last'.chat # c \/ KindOf(last'.op) # "orders") =>
                 ordersState'[c] = ordersState[c] /\ ordersJobs'[c] = ordersJobs[c]]_vars

\* C18 witness: the order alerts of a chat are stopped while its trade alerts
\* and both kinds of alerts of the other chat are running with trackers set.
C18_Witness ==
    /\ last.op = "stop_order_alerts"
    /\ last.ret
    /\ LET c == last.chat
       IN /\ tradeJobs[c] > 0
          /\ tradeState[c].last_seen_ts # None
          /\ \A d \in Chats \ {c} :
                 /\ tradeJobs[d] > 0 /\ ordersJobs[d] > 0
                 /\ tradeState[d].last_seen_ts # None
                 /\ ordersState[d].initialized

\* A list of (number, string) keys is in ascending order.
Ascending(keys) ==
    \A i \in 1..Len(keys), j \in 1..Len(keys) : i < j => ~KeyLess(keys[j], keys[i])

Reverse(seq) == [i \in 1..Len(seq) |-> seq[Len(seq) + 1 - i]]

\* C19: the notifications of one trade poll cycle are sent in ascending
\* (timestamp, trade_id) order and those of one order poll cycle in ascending
\* (creation timestamp or 0, identity key) order, whatever the order of the
\* fetched records: the batch in reverse order gives the same sequence of keys.
C19_EmissionOrder ==
    /\ tradeJobs[PollChat] > 0 =>
          \A batch \in TradeBatches :
              LET r == TradeCycle(tradeState[PollChat], FetchOk(batch))
                  rr == TradeCycle(tradeState[PollChat], FetchOk(Reverse(batch)))
              IN /\ Ascending(KeyList(r.sends, "trades"))
                 /\ KeyList(rr.sends, "trades") = KeyList(r.sends, "trades")
    /\ ordersJobs[PollChat] > 0 =>
          \A batch \in OrderBatches :
              LET r == OrderCycle(ordersState[PollChat], FetchOk(batch))
                  rr == OrderCycle(ordersState[PollChat], FetchOk(Reverse(batch)))
                  keys(sends) == [i \in 1..Len(sends) |-> OrderSortKey(sends[i])]
              IN /\ Ascending(keys(r.sends))
                 /\ keys(rr.sends) = keys(r.sends)

\* C19 witness: an order poll has sent two notifications in ascending order
\* for a batch that the client returned in descending order.
C19_Witness ==
    /\ last.op = "_poll_orders"
    /\ Len(last.sends) = 2
    /\ OrderLess(last.sends[1], last.sends[2])
    /\ OrderCycle(last.pre, FetchOk(Reverse(last.sends))).sends = last.sends

\* C20: a trade poll on a batch that mixes records with a parsable timestamp
\* and records with a missing or unparsable one sends what the same poll sends
\* on the batch without the malformed records, and leaves the same cursor; a
\* batch of malformed records only sends nothing and leaves the cursor.
C20_MalformedDropped ==
    tradeJobs[PollChat] > 0 =>
        \A batch \in TradeBatches :
            LET state == tradeState[PollChat]
                r == TradeCycle(state, FetchOk(batch))
                clean == TradeCycle(state, FetchOk(ValidTrades(batch)))
            IN /\ r.sends = clean.sends
               /\ r.state = clean.state
               /\ ValidTrades(batch) = << >> => r.sends = << >> /\ r.state = state

\* C21: once the order tracker is initialized, a key that is absent from a
\* successful fetch (one that returned other orders, or none at all) is not in
\* seen_order_keys after that cycle, and an order with that key in a later
\* fetch is notified as new again.
C21_DisappearedForgotten ==
    (ordersJobs[PollChat] > 0 /\ ordersState[PollChat].initialized) =>
        \A batch \in OrderBatches :
            LET state == ordersState[PollChat]
                r == OrderCycle(state, FetchOk(batch))
            IN \A k \in SeenKeys(state) \ OrderKeys(batch) :
                  /\ k \notin SeenKeys(r.state)
                  /\ \A o \in OrderRecords :
                        _order_key(o) = k =>
                            k \in OrderKeys(OrderCycle(r.state, FetchOk(<<o>>)).sends)

\* C22 as stated: without a cursor the fetch has no start_time; with a cursor
\* of t seconds start_time is max(0, t*1000 - 1000) milliseconds, which is never
\* negative and never later than the cursor, so that a trade with the cursor's
\* timestamp is inside the window from start_time on.
C22_StartTimeAsStated ==
    call.fn = "start_time" =>
        LET cursor == call.args[1]
        IN IF cursor = None THEN call.result = None
           ELSE /\ call.result # None
                /\ call.result[1] * TicksPerMs =
                       Max(0, cursor[1] - MarginMs * TicksPerMs)
                /\ call.result[1] >= 0
                /\ call.result[1] * TicksPerMs <= cursor[1]

\* C22 amended: without a cursor the fetch has no start_time; with a cursor at
\* or after the epoch start_time is a whole number of milliseconds that is
\* never negative and never later than the cursor, so that a trade with the
\* cursor's timestamp is inside the window; it lies at least one second and
\* less than one second and a millisecond before the cursor, or is 0 for a
\* cursor in the first second and millisecond.  For a cursor before the epoch
\* start_time is 0.
C22_StartTime ==
    call.fn = "start_time" =>
        LET cursor == call.args[1]
            margin == MarginMs * TicksPerMs
        IN IF cursor = None THEN call.result = None
           ELSE /\ call.result # None
                /\ call.result[1] >= 0
                /\ cursor[1] < 0 => call.result[1] = 0
                /\ cursor[1] >= 0 =>
                       LET start == call.result[1] * TicksPerMs
                       IN /\ start <= cursor[1]
                          /\ start > 0 =>
                                 margin <= cursor[1] - start
                                 /\ cursor[1] - start < margin + TicksPerMs
                          /\ start = 0 => cursor[1] < margin + TicksPerMs

\* C22 witness: start_time was computed for a cursor that is more than a
\* second after the epoch and not on a whole millisecond.
C22_Witness ==
    /\ call.fn = "start_time"
    /\ call.args[1] # None
    /\ call.args[1][1] > MarginMs * TicksPerMs
    /\ call.args[1][1] % TicksPerMs # 0
    /\ call.result[1] > 0

\* The values a filter dict holds for a key, as a set.
ValuesOf(filters, key) == Range(FilterGet(filters, key))

\* merged has, for each of the three keys, the sorted list without repeats of
\* the values of a and b, no entry for a key neither holds a value for, and no
\* other key.
MergeShape(a, b, merged) ==
    /\ DOMAIN merged \subseteq FilterKeySet
    /\ \A key \in FilterKeySet :
          LET union == ValuesOf(a, key) \cup ValuesOf(b, key)
          IN IF union = {} THEN key \notin DOMAIN merged
             ELSE /\ key \in DOMAIN merged
                  /\ Range(merged[key]) = union
                  /\ Len(merged[key]) = Cardinality(union)
                  /\ \A i \in 1..Len(merged[key]), j \in 1..Len(merged[key]) :
                        i < j => StrLess(merged[key][i], merged[key][j])

\* C23: _merge_filters returns for each of the three keys the sorted union
\* without repeats of the two value sets, leaves out a key whose union is
\* empty and has no other key; the stored filters of a chat never hold an empty
\* list and a start never takes a value out of them.
C23_MergeShape ==
    /\ [](\A a \in Filters :
             MergeShape(a, last.filters, _merge_filters(a, last.filters)))
    /\ [](\A c \in Chats :
             \A key \in DOMAIN tradeState[c].filters :
                 tradeState[c].filters[key] # << >>)
    /\ [][\A c \in Chats, key \in FilterKeySet :
             /\ ValuesOf(tradeState[c].filters, key)
                    \subseteq ValuesOf(tradeState'[c].filters, key)
             /\ last'.op \in Starts =>
                    MergeShape(tradeState[c].filters,
                               IF c = last'.chat THEN last'.filters ELSE None,
                               tradeState'[c].filters)]_vars

\* C23 witness: a start with a dict that holds an empty list, an unsorted list
\* and a new key has widened stored filters.
C23_Witness ==
    /\ last.op = "start_trade_alerts"
    /\ last.pre.filters # None
    /\ "connector_names" \in DOMAIN last.filters
    /\ "trading_pairs" \in DOMAIN last.filters
    /\ last.filters["connector_names"] = << >>
    /\ "trading_pairs" \notin DOMAIN last.pre.filters
    /\ tradeState[last.chat].filters # last.pre.filters

\* C24: a poll whose fetch succeeds with no record calls send_message for
\* nothing and leaves the state dict of the chat as it was, for trades (cursor
\* and all) and for orders (initialized and seen_order_keys and all); jobs are
\* not touched either.
C24_EmptyFetchNoOp ==
    /\ [](\A c \in Chats :
             /\ TradeCycle(tradeState[c], FetchOk(<< >>)).state = tradeState[c]
             /\ TradeCycle(tradeState[c], FetchOk(<< >>)).sends = << >>
             /\ OrderCycle(ordersState[c], FetchOk(<< >>)).state = ordersState[c]
             /\ OrderCycle(ordersState[c], FetchOk(<< >>)).sends = << >>)
    /\ [][(last'.op \in Polls /\ last'.outcome \in {"no trades", "no orders"}) =>
             /\ last'.attempted = << >>
             /\ UNCHANGED <<tradeState, tradeJobs, ordersState, ordersJobs>>
             /\ \A c \in Chats :
                   /\ notified'[c, "trades"] = notified[c, "trades"]
                   /\ notified'[c, "orders"] \subseteq notified[c, "orders"]]_vars

\* C24 witness: an empty fetch has met an initialized order tracker with a
\* key in its seen set.
C24_Witness ==
    /\ last.op = "_poll_orders"
    /\ last.outcome = "no orders"
    /\ last.pre.initialized
    /\ last.pre.seen_order_keys # << >>
    /\ ordersState[last.chat] = last.pre

\* The chat was stopped with a cursor (a seen set) and has just been started
\* again: only a stop leaves enabled false in a state dict that polls wrote to.
TradesRestarted ==
    /\ last.op = "start_trade_alerts"
    /\ ~last.pre.enabled
    /\ last.pre.last_seen_ts # None

OrdersRestarted ==
    /\ last.op = "start_order_alerts"
    /\ ~last.pre.enabled
    /\ last.pre.initialized

\* C25: a stop changes only the enabled flag and the jobs: filters, cursor,
\* initialized and seen_order_keys stay; after a stop and a start the first
\* poll runs from the retained cursor (seen set), so every fetched trade with
\* a key above the retained cursor, and every fetched order with a key outside
\* the retained seen set, is notified by that poll.
C25_StopKeepsTracker ==
    /\ [][last'.op \in Stops =>
             /\ tradeState' = [tradeState EXCEPT ![last'.chat] =
                    IF last'.op = "stop_trade_alerts"
                    THEN [@ EXCEPT !.enabled = FALSE] ELSE @]
             /\ ordersState' = [ordersState EXCEPT ![last'.chat] =
                    IF last'.op = "stop_order_alerts"
                    THEN [@ EXCEPT !.enabled = FALSE] ELSE @]]_vars
    /\ [](TradesRestarted =>
             /\ Cursor(tradeState[last.chat]) = Cursor(last.pre)
             /\ \A batch \in TradeBatches :
                   LET r == TradeCycle(tradeState[last.chat], FetchOk(batch))
                   IN \A i \in 1..Len(batch) :
                        (/\ batch[i].ts_kind = "ok"
                         /\ KeyLess(Cursor(last.pre), TradeKey(batch[i])))
                        => batch[i] \in Range(r.sends))
    /\ [](OrdersRestarted =>
             /\ ordersState[last.chat].initialized
             /\ SeenKeys(ordersState[last.chat]) = SeenKeys(last.pre)
             /\ \A batch \in OrderBatches :
                   LET r == OrderCycle(ordersState[last.chat], FetchOk(batch))
                   IN \A i \in 1..Len(batch) :
                        _order_key(batch[i]) \notin SeenKeys(last.pre)
                        => batch[i] \in Range(r.sends))

\* C26: from a fresh chat, after every start and stop the enabled flag of a
\* kind is true exactly when the job queue holds a job of that chat and kind,
\* and a poll changes neither the flag nor the jobs.
C26_EnabledIffJob ==
    /\ [](\A c \in Chats :
             /\ tradeState[c].enabled <=> tradeJobs[c] > 0
             /\ ordersState[c].enabled <=> ordersJobs[c] > 0)
    /\ [][last'.op \in Polls =>
             /\ UNCHANGED <<tradeJobs, ordersJobs>>
             /\ \A c \in Chats :
                   /\ tradeState'[c].enabled = tradeState[c].enabled
                   /\ ordersState'[c].enabled = ordersState[c].enabled]_vars

\* C26 witness: order alerts that were started and polled have been stopped.
C26_Witness ==
    /\ last.op = "stop_order_alerts"
    /\ last.pre.enabled
    /\ last.pre.initialized
    /\ ~ordersState[last.chat].enabled
    /\ ordersJobs[last.chat] = 0

\* C27: from any state, a restored one with the flag set and no job included,
\* one handle_toggle_trade_alerts negates is_trade_alerts_enabled, a second
\* one in a row restores it, and neither changes the stored filters or the
\* cursor.
C27_ToggleFlips ==
    /\ [](\A c \in Chats :
             LET before == [jobs |-> tradeJobs[c], state |-> tradeState[c]]
                 once == Toggled(before.jobs, before.state)
                 twice == Toggled(once.jobs, once.state)
                 on(x) == is_trade_alerts_enabled(x.jobs, x.state)
                 kept(x) == /\ x.state.filters = before.state.filters
                            /\ x.state.last_seen_ts = before.state.last_seen_ts
                            /\ x.state.last_seen_trade_id
                                  = before.state.last_seen_trade_id
             IN /\ on(once) = ~on(before)
                /\ on(twice) = on(before)
                /\ kept(once) /\ kept(twice))
    /\ [][last'.op = "handle_toggle_trade_alerts" =>
             LET c == last'.chat
             IN /\ is_trade_alerts_enabled(tradeJobs'[c], tradeState'[c])
                     = ~is_trade_alerts_enabled(tradeJobs[c], tradeState[c])
                /\ tradeState'[c].filters = tradeState[c].filters
                /\ tradeState'[c].last_seen_ts = tradeState[c].last_seen_ts
                /\ tradeState'[c].last_seen_trade_id
                     = tradeState[c].last_seen_trade_id]_vars

\* C27 witness: the first operation after a restart that restored the flag,
\* filters and a cursor was a toggle, and it has switched the alerts off.
C27_Witness ==
    /\ last.op = "handle_toggle_trade_alerts"
    /\ last.pre.enabled
    /\ last.pre.filters # None
    /\ last.pre.last_seen_ts # None
    /\ last.ret
    /\ ~is_trade_alerts_enabled(tradeJobs[last.chat], tradeState[last.chat])
    /\ notified[last.chat, "trades"] = {}

====
